---- MODULE Spec2Model ----
(***************************************************************************)
(* A model of cluck: the message codec of cluck_message.py and the         *)
(* asyncio protocol CluckServer of cluck_server.py.                        *)
(*                                                                         *)
(* bytes objects are sequences of integers 0..255, str objects are         *)
(* sequences of Unicode code points.  A value that may be None is a record *)
(* [none, bytes]; the outcome of a call that may raise is a record         *)
(* [exc, val] with exc = "" for a normal return.                           *)
(***************************************************************************)
EXTENDS Integers, Sequences, FiniteSets, TLC

(***************************************************************************)
(* Bounds of the model.                                                    *)
(***************************************************************************)
\* longest payload, in bytes, of the byte strings handed to the codec and of the
\* well-formed frames sent to the server
MaxData == 2

\* user names given to validate_username: every string of up to this many characters
MaxName == 3

\* number of connections
NumTransports == 2

(***************************************************************************)
(* cluck_message.py: constants.                                            *)
(***************************************************************************)
CODE_SIZE == 2
LENGTH_SIZE == 2
HEADER_SIZE == CODE_SIZE + LENGTH_SIZE
EMPTY_LENGTH == 0
CODE_MOTD == 1
CODE_MOTD_REQUEST == 2
CODE_COMMAND_SUCCESS == 10
CODE_COMMAND_ERROR == 11
CODE_REGISTER_USER == 100
CODE_USER_STATUS == 101
CODE_WHOAMI == 110

(***************************************************************************)
(* Python values.                                                          *)
(***************************************************************************)
\* Python's None, where a bytes object could stand
NoneVal == [none |-> TRUE, bytes |-> <<>>]
\* a bytes object
BytesVal(b) == [none |-> FALSE, bytes |-> b]
\* truth value of `if x:` for x None or a bytes object
Truthy(x) == ~x.none /\ Len(x.bytes) > 0
\* a normal return
Ok(v) == [exc |-> "", val |-> v]
\* an exception leaving the call
Raise(e) == [exc |-> e, val |-> <<>>]
\* the slice s[a:b] of a sequence, 0 <= a <= b, with Python's clipping
Slice(s, a, b) ==
  LET hi == IF b < Len(s) THEN b ELSE Len(s)
  IN  IF a >= hi THEN <<>> ELSE SubSeq(s, a + 1, hi)

(***************************************************************************)
(* struct.pack('!H', n) and struct.unpack('!H', b): an unsigned 16-bit     *)
(* integer, big-endian.                                                    *)
(***************************************************************************)
StructPackH(n) ==
  IF n \in 0..65535 THEN Ok(<<n \div 256, n % 256>>) ELSE Raise("struct.error")

StructUnpackH(b) ==
  IF Len(b) = 2 THEN Ok(b[1] * 256 + b[2]) ELSE Raise("struct.error")

(***************************************************************************)
(* class Message.                                                          *)
(***************************************************************************)
Message(code, data) == [code |-> code, data |-> data]

get_code(m) == m.code

get_length(m) == IF Truthy(m.data) THEN Len(m.data.bytes) ELSE EMPTY_LENGTH

get_data(m) == m.data

has_data(m) == Truthy(m.data)

pack_code(m) == StructPackH(m.code)

pack_length(m) == StructPackH(get_length(m))

\* _pack_code() + _pack_length(): the code is packed first
pack_header(m) ==
  LET c == pack_code(m)
      l == pack_length(m)
  IN  IF c.exc # "" THEN c
      ELSE IF l.exc # "" THEN l
      ELSE Ok(c.val \o l.val)

\* self._pack_header() + self.data: bytes + None raises TypeError
pack(m) ==
  LET h == pack_header(m)
  IN  IF h.exc # "" THEN h
      ELSE IF m.data.none THEN Raise("TypeError")
      ELSE Ok(h.val \o m.data.bytes)

(***************************************************************************)
(* decode and its helpers.                                                 *)
(***************************************************************************)
unpack_code(raw) == StructUnpackH(Slice(raw, 0, CODE_SIZE))

\* a variant reading the length as int.from_bytes would: no check of the slice's size
unpack_length_lenient(raw) ==
  LET b == Slice(raw, CODE_SIZE, CODE_SIZE + LENGTH_SIZE)
  IN  Ok((IF Len(b) >= 1 THEN b[1] * 256 ELSE 0) + (IF Len(b) >= 2 THEN b[2] ELSE 0))

unpack_length(raw) == StructUnpackH(Slice(raw, CODE_SIZE, CODE_SIZE + LENGTH_SIZE))

\* a variant comparing the length with the bytes left after the header, strictly
unpack_data_remaining(raw, length) ==
  IF length > 0 /\ length < Len(raw) - HEADER_SIZE
  THEN BytesVal(Slice(raw, HEADER_SIZE, HEADER_SIZE + length))
  ELSE NoneVal

\* a variant comparing with <= instead of <
unpack_data_le(raw, length) ==
  IF length > 0 /\ length <= Len(raw)
  THEN BytesVal(Slice(raw, HEADER_SIZE, HEADER_SIZE + length))
  ELSE NoneVal

unpack_data(raw, length) ==
  IF length > 0 /\ length < Len(raw)
  THEN BytesVal(Slice(raw, HEADER_SIZE, HEADER_SIZE + length))
  ELSE NoneVal

decode(raw) ==
  LET code == unpack_code(raw)
      length == unpack_length(raw)
  IN  IF code.exc # "" THEN code
      ELSE IF length.exc # "" THEN length
      ELSE Ok(Message(code.val, unpack_data(raw, length.val)))

pack_motd_req == pack(Message(CODE_MOTD_REQUEST, NoneVal))

pack_whoami == pack(Message(CODE_WHOAMI, NoneVal))

(***************************************************************************)
(* Python str and bytes operations the server uses.                        *)
(***************************************************************************)
\* None, where a str could stand
NoneStr == [none |-> TRUE, str |-> <<>>]
\* a str object
StrVal(s) == [none |-> FALSE, str |-> s]
\* truth value of `if x:` for x None or a str
StrTruthy(x) == ~x.none /\ Len(x.str) > 0

\* the elements of a sequence
Range(s) == {s[i] : i \in 1..Len(s)}

\* bytes.decode(): strict UTF-8, from position i on
RECURSIVE Utf8DecodeFrom(_, _)
Utf8DecodeFrom(b, i) ==
  IF i > Len(b) THEN Ok(<<>>)
  ELSE
    LET b1 == b[i]
        cont(j) == j <= Len(b) /\ b[j] \in 128..191
        low(j) == b[j] - 128
        rest(n, cp) ==
          LET r == Utf8DecodeFrom(b, i + n)
          IN  IF r.exc # "" THEN r ELSE Ok(<<cp>> \o r.val)
    IN  IF b1 < 128 THEN rest(1, b1)
        ELSE IF b1 \in 194..223 /\ cont(i + 1)
          THEN rest(2, (b1 - 192) * 64 + low(i + 1))
        ELSE IF /\ b1 \in 224..239 /\ cont(i + 1) /\ cont(i + 2)
                /\ (b1 = 224 => b[i + 1] >= 160)
                /\ (b1 = 237 => b[i + 1] <= 159)
          THEN rest(3, (b1 - 224) * 4096 + low(i + 1) * 64 + low(i + 2))
        ELSE IF /\ b1 \in 240..244 /\ cont(i + 1) /\ cont(i + 2) /\ cont(i + 3)
                /\ (b1 = 240 => b[i + 1] >= 144)
                /\ (b1 = 244 => b[i + 1] <= 143)
          THEN rest(4, (b1 - 240) * 262144 + low(i + 1) * 4096 + low(i + 2) * 64
                       + low(i + 3))
        ELSE Raise("UnicodeDecodeError")

Utf8Decode(b) == Utf8DecodeFrom(b, 1)

\* the UTF-8 bytes of one code point
Utf8Char(c) ==
  IF c < 128 THEN <<c>>
  ELSE IF c < 2048 THEN <<192 + (c \div 64), 128 + (c % 64)>>
  ELSE IF c < 65536
    THEN <<224 + (c \div 4096), 128 + ((c \div 64) % 64), 128 + (c % 64)>>
  ELSE <<240 + (c \div 262144), 128 + ((c \div 4096) % 64), 128 + ((c \div 64) % 64),
         128 + (c % 64)>>

\* the UTF-8 bytes of the code points s[lo..hi], by halves
RECURSIVE Utf8EncodeRange(_, _, _)
Utf8EncodeRange(s, lo, hi) ==
  IF lo > hi THEN <<>>
  ELSE IF lo = hi THEN Utf8Char(s[lo])
  ELSE LET mid == (lo + hi) \div 2
       IN  Utf8EncodeRange(s, lo, mid) \o Utf8EncodeRange(s, mid + 1, hi)

\* str.encode(): UTF-8; a surrogate code point cannot be encoded
Utf8Encode(s) ==
  IF \E i \in 1..Len(s) : s[i] \in 55296..57343 THEN Raise("UnicodeEncodeError")
  ELSE Ok(Utf8EncodeRange(s, 1, Len(s)))

\* str(n) for an integer n >= 0
RECURSIVE IntStr(_)
IntStr(n) == IF n < 10 THEN <<48 + n>> ELSE IntStr(n \div 10) \o <<48 + (n % 10)>>

\* a lower-case hexadecimal digit
HexDigit(d) == IF d < 10 THEN 48 + d ELSE 87 + d

\* one byte of the repr of a bytes object delimited by `quote`
ReprByte(c, quote) ==
  IF c = quote \/ c = 92 THEN <<92, c>>
  ELSE IF c = 9 THEN <<92, 116>>
  ELSE IF c = 10 THEN <<92, 110>>
  ELSE IF c = 13 THEN <<92, 114>>
  ELSE IF c < 32 \/ c >= 127 THEN <<92, 120, HexDigit(c \div 16), HexDigit(c % 16)>>
  ELSE <<c>>

\* the repr of the bytes b[lo..hi], by halves
RECURSIVE ReprRange(_, _, _, _)
ReprRange(b, quote, lo, hi) ==
  IF lo > hi THEN <<>>
  ELSE IF lo = hi THEN ReprByte(b[lo], quote)
  ELSE LET mid == (lo + hi) \div 2
       IN  ReprRange(b, quote, lo, mid) \o ReprRange(b, quote, mid + 1, hi)

\* '{}'.format(b) for a bytes object: its repr, b'...', in double quotes when b
\* holds a single quote and no double quote
BytesRepr(b) ==
  LET quote == IF 39 \in Range(b) /\ 34 \notin Range(b) THEN 34 ELSE 39
  IN  <<98, quote>> \o ReprRange(b, quote, 1, Len(b)) \o <<quote>>

\* str.isalpha() of one character, for code points below 256 (the model's
\* inputs decode to no others)
IsAlpha(c) ==
  \/ c \in 65..90
  \/ c \in 97..122
  \/ c \in {170, 181, 186}
  \/ c \in 192..214
  \/ c \in 216..246
  \/ c \in 248..255

\* whether the pattern \s matches one character, for code points below 256
IsSpace(c) == c \in {9, 10, 11, 12, 13, 28, 29, 30, 31, 32, 133, 160}

(***************************************************************************)
(* Message.get_data_ascii and the pack_* helpers of cluck_message.py.      *)
(***************************************************************************)
\* self.data.decode(): the default codec is UTF-8
get_data_ascii(m) ==
  IF m.data.none THEN Raise("AttributeError") ELSE Utf8Decode(m.data.bytes)

\* Message(code, text.encode()).pack()
pack_text(code, text) ==
  LET e == Utf8Encode(text)
  IN  IF e.exc # "" THEN e ELSE pack(Message(code, BytesVal(e.val)))

pack_motd(text) == pack_text(CODE_MOTD, text)

pack_cmd_success(text) == pack_text(CODE_COMMAND_SUCCESS, text)

pack_cmd_error(text) == pack_text(CODE_COMMAND_ERROR, text)

pack_register_user(text) == pack_text(CODE_REGISTER_USER, text)

pack_user_status(text) == pack_text(CODE_USER_STATUS, text)

(***************************************************************************)
(* cluck_server.py: constants and texts.                                   *)
(***************************************************************************)
STATE_CONNECTED == "connecting"
STATE_READY == "ready"
STATE_ERROR == "error"

\* the longest user name validate_username accepts
MAX_USERNAME == 12

\* 'malformed_packet_error: incomplete header, '
TXT_INCOMPLETE_HEADER ==
  <<109, 97, 108, 102, 111, 114, 109, 101, 100, 95, 112, 97, 99, 107, 101,
    116, 95, 101, 114, 114, 111, 114, 58, 32, 105, 110, 99, 111, 109, 112,
    108, 101, 116, 101, 32, 104, 101, 97, 100, 101, 114, 44, 32>>

\* 'malformed_packet_error: bad message code ('
TXT_BAD_CODE_OPEN ==
  <<109, 97, 108, 102, 111, 114, 109, 101, 100, 95, 112, 97, 99, 107, 101,
    116, 95, 101, 114, 114, 111, 114, 58, 32, 98, 97, 100, 32, 109, 101,
    115, 115, 97, 103, 101, 32, 99, 111, 100, 101, 32, 40>>

\* ')'
TXT_BAD_CODE_CLOSE ==
  <<41>>

\* 'user_status: host has no registered users.'
TXT_NO_USER ==
  <<117, 115, 101, 114, 95, 115, 116, 97, 116, 117, 115, 58, 32, 104, 111,
    115, 116, 32, 104, 97, 115, 32, 110, 111, 32, 114, 101, 103, 105, 115,
    116, 101, 114, 101, 100, 32, 117, 115, 101, 114, 115, 46>>

\* 'register_user_error: '
TXT_REGISTER_ERROR ==
  <<114, 101, 103, 105, 115, 116, 101, 114, 95, 117, 115, 101, 114, 95,
    101, 114, 114, 111, 114, 58, 32>>

\* 'register_user_success: '
TXT_REGISTER_SUCCESS ==
  <<114, 101, 103, 105, 115, 116, 101, 114, 95, 117, 115, 101, 114, 95,
    115, 117, 99, 99, 101, 115, 115, 58, 32>>

\* ' confirmed.'
TXT_CONFIRMED ==
  <<32, 99, 111, 110, 102, 105, 114, 109, 101, 100, 46>>

\* 'user names must contain least one character.'
ERR_TOO_SHORT ==
  <<117, 115, 101, 114, 32, 110, 97, 109, 101, 115, 32, 109, 117, 115,
    116, 32, 99, 111, 110, 116, 97, 105, 110, 32, 108, 101, 97, 115, 116,
    32, 111, 110, 101, 32, 99, 104, 97, 114, 97, 99, 116, 101, 114, 46>>

\* 'user names cannot contain more than twelve characters.'
ERR_TOO_LONG ==
  <<117, 115, 101, 114, 32, 110, 97, 109, 101, 115, 32, 99, 97, 110, 110,
    111, 116, 32, 99, 111, 110, 116, 97, 105, 110, 32, 109, 111, 114, 101,
    32, 116, 104, 97, 110, 32, 116, 119, 101, 108, 118, 101, 32, 99, 104,
    97, 114, 97, 99, 116, 101, 114, 115, 46>>

\* 'user names must begin with alphanumeric characters.'
ERR_FIRST_CHAR ==
  <<117, 115, 101, 114, 32, 110, 97, 109, 101, 115, 32, 109, 117, 115,
    116, 32, 98, 101, 103, 105, 110, 32, 119, 105, 116, 104, 32, 97, 108,
    112, 104, 97, 110, 117, 109, 101, 114, 105, 99, 32, 99, 104, 97, 114,
    97, 99, 116, 101, 114, 115, 46>>

\* 'user names cannot contain whitespace.'
ERR_WHITESPACE ==
  <<117, 115, 101, 114, 32, 110, 97, 109, 101, 115, 32, 99, 97, 110, 110,
    111, 116, 32, 99, 111, 110, 116, 97, 105, 110, 32, 119, 104, 105, 116,
    101, 115, 112, 97, 99, 101, 46>>

\* 'Cluck!'
MOTD_TEXT ==
  <<67, 108, 117, 99, 107, 33>>

(***************************************************************************)
(* validate_username: None, or the error of the first rule that fails.     *)
(***************************************************************************)
\* a variant that looks for whitespace before it looks at the first character
validate_username_whitespace_first(username) ==
  IF Len(username) < 1 THEN StrVal(ERR_TOO_SHORT)
  ELSE IF Len(username) > MAX_USERNAME THEN StrVal(ERR_TOO_LONG)
  ELSE IF \E i \in 1..Len(username) : IsSpace(username[i]) THEN StrVal(ERR_WHITESPACE)
  ELSE IF ~IsAlpha(username[1]) THEN StrVal(ERR_FIRST_CHAR)
  ELSE NoneStr

validate_username(username) ==
  IF Len(username) < 1 THEN StrVal(ERR_TOO_SHORT)
  ELSE IF Len(username) > MAX_USERNAME THEN StrVal(ERR_TOO_LONG)
  ELSE IF ~IsAlpha(username[1]) THEN StrVal(ERR_FIRST_CHAR)
  ELSE IF \E i \in 1..Len(username) : IsSpace(username[i]) THEN StrVal(ERR_WHITESPACE)
  ELSE NoneStr

(***************************************************************************)
(* class CluckServer: the handlers.  A handler's outcome is the new value  *)
(* of self.user, the frames it hands to self._send in order, and the       *)
(* exception that left it ("" for none).                                   *)
(***************************************************************************)
\* the outcome of a handler whose last statement is self._send(packed)
Reply(self_user, packed) ==
  IF packed.exc # ""
  THEN [user |-> self_user, sends |-> <<>>, exc |-> packed.exc]
  ELSE [user |-> self_user, sends |-> <<packed.val>>, exc |-> ""]

\* the banner of pyfiglet, an external text generator, stands as a fixed text
get_motd == MOTD_TEXT

handle_whoami_request(self_user, message) ==
  IF StrTruthy(self_user)
  THEN Reply(self_user, pack_user_status(self_user.str))
  ELSE Reply(self_user, pack_cmd_error(TXT_NO_USER))

\* a variant that confirms the registration without storing the name
handle_register_user_forgets(self_user, message) ==
  LET name == IF has_data(message) THEN get_data_ascii(message) ELSE Ok(<<>>)
  IN  IF name.exc # "" THEN [user |-> self_user, sends |-> <<>>, exc |-> name.exc]
      ELSE
        LET error == validate_username(name.val)
        IN  IF StrTruthy(error)
            THEN Reply(self_user, pack_cmd_error(TXT_REGISTER_ERROR \o error.str))
            ELSE Reply(self_user,
                       pack_cmd_success(TXT_REGISTER_SUCCESS \o name.val \o TXT_CONFIRMED))

\* a variant that drops the registered name when the new one is refused
handle_register_user_clears(self_user, message) ==
  LET name == IF has_data(message) THEN get_data_ascii(message) ELSE Ok(<<>>)
  IN  IF name.exc # "" THEN [user |-> self_user, sends |-> <<>>, exc |-> name.exc]
      ELSE
        LET error == validate_username(name.val)
        IN  IF StrTruthy(error)
            THEN Reply(NoneStr, pack_cmd_error(TXT_REGISTER_ERROR \o error.str))
            ELSE Reply(StrVal(name.val),
                       pack_cmd_success(TXT_REGISTER_SUCCESS \o name.val \o TXT_CONFIRMED))

handle_register_user(self_user, message) ==
  LET name == IF has_data(message) THEN get_data_ascii(message) ELSE Ok(<<>>)
  IN  IF name.exc # "" THEN [user |-> self_user, sends |-> <<>>, exc |-> name.exc]
      ELSE
        LET error == validate_username(name.val)
        IN  IF StrTruthy(error)
            THEN Reply(self_user, pack_cmd_error(TXT_REGISTER_ERROR \o error.str))
            ELSE Reply(StrVal(name.val),
                       pack_cmd_success(TXT_REGISTER_SUCCESS \o name.val \o TXT_CONFIRMED))

handle_motd_request(self_user, message) == Reply(self_user, pack_motd(get_motd))

\* self._protocol_paths: message code -> handler
protocol_paths ==
  [c \in {CODE_MOTD_REQUEST, CODE_REGISTER_USER, CODE_WHOAMI} |->
     IF c = CODE_MOTD_REQUEST THEN "_handle_motd_request"
     ELSE IF c = CODE_REGISTER_USER THEN "_handle_register_user"
     ELSE "_handle_whoami_request"]

\* self._protocol_paths[code](message)
CallHandler(name, self_user, message) ==
  IF name = "_handle_motd_request" THEN handle_motd_request(self_user, message)
  ELSE IF name = "_handle_register_user" THEN handle_register_user(self_user, message)
  ELSE handle_whoami_request(self_user, message)

\* a variant that looks the handler up without testing `code in self._protocol_paths`
data_received_unchecked_code(self_user, data) ==
  IF Len(data) < HEADER_SIZE
  THEN [decoded |-> FALSE, handled |-> ""] @@
       Reply(self_user, pack_cmd_error(TXT_INCOMPLETE_HEADER \o BytesRepr(data)))
  ELSE
    LET message == decode(data)
    IN  IF message.exc # ""
        THEN [decoded |-> TRUE, handled |-> "", user |-> self_user, sends |-> <<>>,
              exc |-> message.exc]
        ELSE
          LET code == get_code(message.val)
          IN  IF code \in DOMAIN protocol_paths
              THEN [decoded |-> TRUE, handled |-> protocol_paths[code]] @@
                   CallHandler(protocol_paths[code], self_user, message.val)
              ELSE [decoded |-> TRUE, handled |-> "", user |-> self_user, sends |-> <<>>,
                    exc |-> "KeyError"]

\* a variant that decodes without testing the length of the chunk
data_received_unchecked_length(self_user, data) ==
  LET message == decode(data)
  IN  IF message.exc # ""
      THEN [decoded |-> TRUE, handled |-> "", user |-> self_user, sends |-> <<>>,
            exc |-> message.exc]
      ELSE
        LET code == get_code(message.val)
        IN  IF code \in DOMAIN protocol_paths
            THEN [decoded |-> TRUE, handled |-> protocol_paths[code]] @@
                 CallHandler(protocol_paths[code], self_user, message.val)
            ELSE [decoded |-> TRUE, handled |-> ""] @@
                 Reply(self_user, pack_cmd_error(TXT_BAD_CODE_OPEN \o IntStr(code)
                                                 \o TXT_BAD_CODE_CLOSE))

\* a variant that goes on with the bytes after the first frame of the chunk:
\* the first frame handled as data_received handles a chunk
data_received_first_frame(self_user, data) ==
  IF Len(data) < HEADER_SIZE
  THEN [decoded |-> FALSE, handled |-> ""] @@
       Reply(self_user, pack_cmd_error(TXT_INCOMPLETE_HEADER \o BytesRepr(data)))
  ELSE
    LET message == decode(data)
    IN  IF message.exc # ""
        THEN [decoded |-> TRUE, handled |-> "", user |-> self_user, sends |-> <<>>,
              exc |-> message.exc]
        ELSE
          LET code == get_code(message.val)
          IN  IF code \in DOMAIN protocol_paths
              THEN [decoded |-> TRUE, handled |-> protocol_paths[code]] @@
                   CallHandler(protocol_paths[code], self_user, message.val)
              ELSE [decoded |-> TRUE, handled |-> ""] @@
                   Reply(self_user, pack_cmd_error(TXT_BAD_CODE_OPEN \o IntStr(code)
                                                   \o TXT_BAD_CODE_CLOSE))

\* the bytes of the chunk its first frame takes
first_frame_size(data) ==
  IF Len(data) < HEADER_SIZE THEN Len(data)
  ELSE LET message == decode(data)
       IN  IF message.exc = "" /\ ~message.val.data.none
           THEN HEADER_SIZE + Len(message.val.data.bytes)
           ELSE HEADER_SIZE

RECURSIVE data_received_every_frame(_, _)
data_received_every_frame(self_user, data) ==
  LET first == data_received_first_frame(self_user, data)
      rest == SubSeq(data, first_frame_size(data) + 1, Len(data))
  IN  IF first.exc # "" \/ rest = <<>> THEN first
      ELSE LET more == data_received_every_frame(first.user, rest)
           IN  [decoded |-> first.decoded, handled |-> first.handled, user |-> more.user,
                sends |-> first.sends \o more.sends, exc |-> more.exc]

\* the body of data_received's try block: whether decode was called, the handler
\* invoked ("" for none) and the outcome
data_received(self_user, data) ==
  IF Len(data) < HEADER_SIZE
  THEN [decoded |-> FALSE, handled |-> ""] @@
       Reply(self_user, pack_cmd_error(TXT_INCOMPLETE_HEADER \o BytesRepr(data)))
  ELSE
    LET message == decode(data)
    IN  IF message.exc # ""
        THEN [decoded |-> TRUE, handled |-> "", user |-> self_user, sends |-> <<>>,
              exc |-> message.exc]
        ELSE
          LET code == get_code(message.val)
          IN  IF code \in DOMAIN protocol_paths
              THEN [decoded |-> TRUE, handled |-> protocol_paths[code]] @@
                   CallHandler(protocol_paths[code], self_user, message.val)
              ELSE [decoded |-> TRUE, handled |-> ""] @@
                   Reply(self_user, pack_cmd_error(TXT_BAD_CODE_OPEN \o IntStr(code)
                                              \o TXT_BAD_CODE_CLOSE))

\* a variant that takes the transport off the list and leaves its dict entry
connection_lost_keeps_state(conns, states, transport) ==
  IF transport \notin Range(conns)
  THEN [connections |-> conns, connection_states |-> states, exc |-> "ValueError"]
  ELSE
    LET i == CHOOSE k \in 1..Len(conns) :
               conns[k] = transport /\ \A j \in 1..(k - 1) : conns[j] # transport
    IN  [connections |-> SubSeq(conns, 1, i - 1) \o SubSeq(conns, i + 1, Len(conns)),
         connection_states |-> states,
         exc |-> ""]

\* connection_lost after self.transport.close(): list.remove raises ValueError
\* for a transport not in the list, dict.pop raises KeyError for a missing key
connection_lost(conns, states, transport) ==
  IF transport \notin Range(conns)
  THEN [connections |-> conns, connection_states |-> states, exc |-> "ValueError"]
  ELSE
    LET i == CHOOSE k \in 1..Len(conns) :
               conns[k] = transport /\ \A j \in 1..(k - 1) : conns[j] # transport
        removed == SubSeq(conns, 1, i - 1) \o SubSeq(conns, i + 1, Len(conns))
    IN  IF transport \notin DOMAIN states
        THEN [connections |-> removed, connection_states |-> states, exc |-> "KeyError"]
        ELSE [connections |-> removed,
              connection_states |-> [x \in DOMAIN states \ {transport} |-> states[x]],
              exc |-> ""]

\* a variant that registers the connection as READY
initialize_connection_ready(conns, states, transport) ==
  [connections |-> Append(conns, transport),
   connection_states |->
     [x \in DOMAIN states \cup {transport} |->
        IF x = transport THEN STATE_READY ELSE states[x]]]

\* _initialize_connection: the registry after it
initialize_connection(conns, states, transport) ==
  [connections |-> Append(conns, transport),
   connection_states |->
     [x \in DOMAIN states \cup {transport} |->
        IF x = transport THEN STATE_CONNECTED ELSE states[x]]]

\* _set_state: the dict after connection_states[self.transport] = state
set_state(states, transport, state) ==
  [x \in DOMAIN states \cup {transport} |-> IF x = transport THEN state ELSE states[x]]

\* _send_to: transport.write(data), which raises on a transport in `failing`
send_to(data, transport, failing) ==
  IF transport \in failing THEN Raise("OSError")
  ELSE Ok([to |-> transport, data |-> data])

\* a variant that writes every frame to one transport, the lowest, shared by
\* all protocol instances
RECURSIVE send_each_shared(_, _, _)
send_each_shared(sends, transport, failing) ==
  IF sends = <<>> THEN [writes |-> <<>>, exc |-> ""]
  ELSE
    LET w == send_to(Head(sends), 1, failing)
    IN  IF w.exc # "" THEN [writes |-> <<>>, exc |-> w.exc]
        ELSE LET r == send_each_shared(Tail(sends), transport, failing)
             IN  [writes |-> <<w.val>> \o r.writes, exc |-> r.exc]

\* the writes of self._send for each frame of `sends` in order, up to the first
\* write that raises
RECURSIVE send_each(_, _, _)
send_each(sends, transport, failing) ==
  IF sends = <<>> THEN [writes |-> <<>>, exc |-> ""]
  ELSE
    LET w == send_to(Head(sends), transport, failing)
    IN  IF w.exc # "" THEN [writes |-> <<>>, exc |-> w.exc]
        ELSE LET r == send_each(Tail(sends), transport, failing)
             IN  [writes |-> <<w.val>> \o r.writes, exc |-> r.exc]

\* _broadcast: the loop over self.connections from position i on
RECURSIVE broadcast_from(_, _, _, _, _)
broadcast_from(conns, states, data, failing, i) ==
  IF i > Len(conns) THEN [writes |-> <<>>, exc |-> ""]
  ELSE IF conns[i] \notin DOMAIN states THEN [writes |-> <<>>, exc |-> "KeyError"]
  ELSE IF states[conns[i]] = STATE_READY
    THEN
      LET w == send_to(data, conns[i], failing)
      IN  IF w.exc # "" THEN [writes |-> <<>>, exc |-> w.exc]
          ELSE LET r == broadcast_from(conns, states, data, failing, i + 1)
               IN  [writes |-> <<w.val>> \o r.writes, exc |-> r.exc]
  ELSE broadcast_from(conns, states, data, failing, i + 1)

\* a variant that writes to every connection, whatever its state
RECURSIVE broadcast_from_all(_, _, _, _, _)
broadcast_from_all(conns, states, data, failing, i) ==
  IF i > Len(conns) THEN [writes |-> <<>>, exc |-> ""]
  ELSE
    LET w == send_to(data, conns[i], failing)
    IN  IF w.exc # "" THEN [writes |-> <<>>, exc |-> w.exc]
        ELSE LET r == broadcast_from_all(conns, states, data, failing, i + 1)
             IN  [writes |-> <<w.val>> \o r.writes, exc |-> r.exc]

broadcast_all(conns, states, data, failing) ==
  broadcast_from_all(conns, states, data, failing, 1)

broadcast(conns, states, data, failing) == broadcast_from(conns, states, data, failing, 1)

(***************************************************************************)
(* Inputs of the codec.                                                    *)
(***************************************************************************)
\* byte values of the payloads: 'A', ' ', and the two bytes of UTF-8 'e-acute'
Alphabet == {65, 32, 195, 169}

\* all byte strings over Alphabet of at most n bytes
ByteStrings(n) == UNION {[1..k -> Alphabet] : k \in 0..n}

\* message codes: the protocol's, two unknown ones and the ends of the range
Codes == {0, CODE_MOTD, CODE_MOTD_REQUEST, CODE_COMMAND_ERROR, CODE_REGISTER_USER,
          CODE_WHOAMI, 9999, 65535}

\* the header bytes of a frame with the given code and length field
Header(code, length) == StructPackH(code).val \o StructPackH(length).val

\* byte strings shorter than a header
ShortChunks == UNION {[1..k -> {0, 110}] : k \in 0..(HEADER_SIZE - 1)}

\* length fields around the payload sizes of the model
LengthFields == 0..(MaxData + HEADER_SIZE + 1) \cup {256, 65535}

\* byte strings given to decode
DecodeInputs ==
  ShortChunks \cup
  {Header(c, n) \o p : c \in Codes, n \in LengthFields, p \in ByteStrings(MaxData)}

\* data given to Message(code, data)
DataInputs == {NoneVal} \cup {BytesVal(p) : p \in ByteStrings(MaxData)}

(***************************************************************************)
(* Inputs of validate_username.                                            *)
(***************************************************************************)
\* characters of the user names: 'A', 'z', '1', ' ' and a line feed
NameAlphabet == {65, 122, 49, 32, 10}

\* the user names around the limit of twelve characters: all letters, a digit
\* first, a space first, a space last
LongNames ==
  UNION {{[i \in 1..n |-> 65],
          [i \in 1..n |-> IF i = 1 THEN 49 ELSE 65],
          [i \in 1..n |-> IF i = 1 THEN 32 ELSE 65],
          [i \in 1..n |-> IF i = n THEN 32 ELSE 65]} : n \in 11..14}

\* '1abc', 'ab cd' and 'Alice'
TableNames == {<<49, 97, 98, 99>>, <<97, 98, 32, 99, 100>>, <<65, 108, 105, 99, 101>>}

UsernameInputs ==
  UNION {[1..k -> NameAlphabet] : k \in 0..MaxName} \cup LongNames \cup TableNames

(***************************************************************************)
(* Inputs of the server.                                                   *)
(***************************************************************************)
\* the transports, one per connection and protocol instance
Transports == 1..NumTransports

\* n times the byte 'A'
Letters(n) == [i \in 1..n |-> 65]

\* payloads of REGISTER_USER requests: names of 0..MaxData letters, the same
\* ending in a space or in a lone UTF-8 lead byte, and the two bytes of e-acute
RegisterPayloads ==
  {Letters(n) : n \in 0..MaxData}
  \cup {Letters(n) \o <<x>> : n \in 0..(MaxData - 1), x \in {32, 195}}
  \cup {<<195, 169>>}

\* the byte strings a peer sends in one chunk
ServerChunks ==
  \* the prefixes of a header
  {SubSeq(Header(CODE_WHOAMI, 0), 1, n) : n \in 0..(HEADER_SIZE - 1)}
  \* requests and other codes without payload
  \cup {Header(c, 0) : c \in {CODE_MOTD_REQUEST, CODE_REGISTER_USER, CODE_WHOAMI,
                               CODE_COMMAND_ERROR, 9999}}
  \* REGISTER_USER frames
  \cup {Header(CODE_REGISTER_USER, Len(p)) \o p : p \in RegisterPayloads}
  \* a WHOAMI frame with a payload
  \cup {Header(CODE_WHOAMI, 1) \o <<65>>}
  \* a frame cut short by one byte, and one whose length field covers the chunk
  \cup {Header(CODE_REGISTER_USER, n + 1) \o Letters(n) : n \in {MaxData}}
  \cup {Header(CODE_REGISTER_USER, n + HEADER_SIZE) \o Letters(n) : n \in {MaxData}}
  \* two frames in one chunk
  \cup {Header(CODE_WHOAMI, 0) \o Header(CODE_MOTD_REQUEST, 0),
        Header(CODE_REGISTER_USER, 1) \o <<65>> \o Header(CODE_WHOAMI, 0)}

\* frames handed to _broadcast
BroadcastFrames == {Header(CODE_MOTD, 1) \o <<65>>}

ConnectionStates == {STATE_CONNECTED, STATE_READY, STATE_ERROR}

\* the values self.user takes: None, and what a chunk of the model sets it to
UserValues == {NoneStr} \cup {data_received(NoneStr, d).user : d \in ServerChunks}

\* data_received on every user value and chunk of the model, evaluated once
DataReceivedTable ==
  [u \in UserValues |-> [d \in ServerChunks |-> data_received(u, d)]]

(***************************************************************************)
(* State.                                                                  *)
(***************************************************************************)
VARIABLES
  call,               \* the codec call made: [op, code, data, raw]
  ret,                \* what the call returned or raised
  connections,        \* the shared list of transports
  connection_states,  \* the shared dict: transport -> state
  phase,              \* per protocol instance: "new", "open" (connection_made
                      \* ran) or "lost" (connection_lost ran)
  user,               \* per protocol instance: self.user
  closed,             \* per transport: whether close() was called on it
  broken,             \* the transports whose write() raises
  event,              \* the last callback or method run: [op, t, data]
  decoded,            \* whether that event called cluck_message.decode
  handled,            \* the handler that event invoked, "" for none
  caught,             \* the exception data_received caught in it, "" for none
  raised,             \* the exception that left it, "" for none
  writes              \* the transport.write calls it made, in order: [to, data]

codec_vars == <<call, ret>>

server_vars == <<connections, connection_states, phase, user, closed, broken, event,
                 decoded, handled, caught, raised, writes>>

vars == <<call, ret, connections, connection_states, phase, user, closed, broken, event,
          decoded, handled, caught, raised, writes>>

NoCall == [op |-> "none", code |-> 0, data |-> NoneVal, raw |-> <<>>]

NoEvent == [op |-> "none", t |-> 0, data |-> <<>>]

\* run_server and CluckServer.__init__: an empty list and dict, no user
ServerInit ==
  /\ connections = <<>>
  /\ connection_states = <<>>
  /\ phase = [t \in Transports |-> "new"]
  /\ user = [t \in Transports |-> NoneStr]
  /\ closed = [t \in Transports |-> FALSE]
  /\ broken = {}
  /\ event = NoEvent
  /\ decoded = FALSE
  /\ handled = ""
  /\ caught = ""
  /\ raised = ""
  /\ writes = <<>>

Init ==
  /\ call = NoCall
  /\ ret = Ok(<<>>)
  /\ ServerInit

(***************************************************************************)
(* The codec, called once on an input.                                     *)
(***************************************************************************)
CodecInit == Init

\* Message(code, data).pack()
Pack(code, data) ==
  /\ call.op = "none"
  /\ call' = [op |-> "pack", code |-> code, data |-> data, raw |-> <<>>]
  /\ ret' = pack(Message(code, data))
  /\ UNCHANGED server_vars

\* cluck_message.decode(raw)
Decode(raw) ==
  /\ call.op = "none"
  /\ call' = [op |-> "decode", code |-> 0, data |-> NoneVal, raw |-> raw]
  /\ ret' = decode(raw)
  /\ UNCHANGED server_vars

\* cluck_message.pack_motd_req()
PackMotdReq ==
  /\ call.op = "none"
  /\ call' = [op |-> "pack_motd_req", code |-> CODE_MOTD_REQUEST, data |-> NoneVal,
              raw |-> <<>>]
  /\ ret' = pack_motd_req
  /\ UNCHANGED server_vars

\* cluck_message.pack_whoami()
PackWhoami ==
  /\ call.op = "none"
  /\ call' = [op |-> "pack_whoami", code |-> CODE_WHOAMI, data |-> NoneVal, raw |-> <<>>]
  /\ ret' = pack_whoami
  /\ UNCHANGED server_vars

CodecNext ==
  \/ \E code \in Codes, data \in DataInputs : Pack(code, data)
  \/ \E raw \in DecodeInputs : Decode(raw)
  \/ PackMotdReq
  \/ PackWhoami

SpecCodec == CodecInit /\ [][CodecNext]_vars

(***************************************************************************)
(* validate_username, called once on a user name.                          *)
(***************************************************************************)
\* validate_username(username)
ValidateUsername(username) ==
  /\ call.op = "none"
  /\ call' = [op |-> "validate_username", username |-> username]
  /\ ret' = Ok(validate_username(username))
  /\ UNCHANGED server_vars

ValidateNext == \E username \in UsernameInputs : ValidateUsername(username)

SpecValidate == Init /\ [][ValidateNext]_vars

(***************************************************************************)
(* The server's callbacks.  asyncio calls connection_made once, then       *)
(* data_received any number of times, then connection_lost; each callback  *)
(* runs to its end before the next starts.                                 *)
(***************************************************************************)
\* connection_made(transport) on the protocol instance of transport t
ConnectionMade(t) ==
  /\ phase[t] = "new"
  /\ LET r == initialize_connection(connections, connection_states, t)
     IN  /\ connections' = r.connections
         /\ connection_states' = r.connection_states
  /\ phase' = [phase EXCEPT ![t] = "open"]
  /\ event' = [op |-> "connection_made", t |-> t, data |-> <<>>]
  /\ decoded' = FALSE
  /\ handled' = ""
  /\ caught' = ""
  /\ raised' = ""
  /\ writes' = <<>>
  /\ UNCHANGED <<user, closed, broken, codec_vars>>

\* a variant that refuses a name another open connection is registered under
DataReceivedUniqueNames(t, data) ==
  /\ phase[t] = "open"
  /\ LET r == DataReceivedTable[user[t]][data]
         taken == /\ r.user # user[t]
                  /\ \E u \in Transports \ {t} : phase[u] = "open" /\ user[u] = r.user
         sends == IF taken THEN <<pack_cmd_error(TXT_REGISTER_ERROR).val>> ELSE r.sends
         w == send_each(sends, t, broken)
     IN  /\ user' = [user EXCEPT ![t] = IF taken THEN user[t] ELSE r.user]
         /\ decoded' = r.decoded
         /\ handled' = r.handled
         /\ writes' = w.writes
         /\ caught' = IF r.exc # "" THEN r.exc ELSE w.exc
  /\ raised' = ""
  /\ event' = [op |-> "data_received", t |-> t, data |-> data]
  /\ UNCHANGED <<connections, connection_states, phase, closed, broken, codec_vars>>

\* data_received(data) on the protocol instance of transport t: the try block,
\* and the except clause that logs whatever it raised
DataReceived(t, data) ==
  /\ phase[t] = "open"
  /\ LET r == DataReceivedTable[user[t]][data]
         w == send_each(r.sends, t, broken)
     IN  /\ user' = [user EXCEPT ![t] = r.user]
         /\ decoded' = r.decoded
         /\ handled' = r.handled
         /\ writes' = w.writes
         /\ caught' = IF r.exc # "" THEN r.exc ELSE w.exc
  /\ raised' = ""
  /\ event' = [op |-> "data_received", t |-> t, data |-> data]
  /\ UNCHANGED <<connections, connection_states, phase, closed, broken, codec_vars>>

\* connection_lost(exc) on the protocol instance of transport t; a second call
\* for the same connection is a cleanup racing with the disconnect
ConnectionLost(t) ==
  /\ phase[t] \in {"open", "lost"}
  /\ closed' = [closed EXCEPT ![t] = TRUE]
  /\ LET r == connection_lost(connections, connection_states, t)
     IN  /\ connections' = r.connections
         /\ connection_states' = r.connection_states
         /\ raised' = r.exc
  /\ phase' = [phase EXCEPT ![t] = "lost"]
  /\ event' = [op |-> "connection_lost", t |-> t, data |-> <<>>]
  /\ decoded' = FALSE
  /\ handled' = ""
  /\ caught' = ""
  /\ writes' = <<>>
  /\ UNCHANGED <<user, broken, codec_vars>>

Next ==
  \/ \E t \in Transports : ConnectionMade(t)
  \/ \E t \in Transports, data \in ServerChunks : DataReceived(t, data)
  \/ \E t \in Transports : ConnectionLost(t)

Spec == Init /\ [][Next]_vars

(***************************************************************************)
(* _broadcast and _set_state, which no handler calls, run on registries    *)
(* in any states, with writes that may fail.                               *)
(***************************************************************************)
\* self._set_state(state) on the protocol instance of transport t
SetState(t, state) ==
  /\ phase[t] = "open"
  /\ connection_states' = set_state(connection_states, t, state)
  /\ event' = [op |-> "set_state", t |-> t, data |-> <<>>]
  /\ decoded' = FALSE
  /\ handled' = ""
  /\ caught' = ""
  /\ raised' = ""
  /\ writes' = <<>>
  /\ UNCHANGED <<connections, phase, user, closed, broken, codec_vars>>

\* the transport t starts to raise on write()
TransportBreaks(t) ==
  /\ phase[t] = "open"
  /\ t \notin broken
  /\ broken' = broken \cup {t}
  /\ event' = [op |-> "transport_breaks", t |-> t, data |-> <<>>]
  /\ decoded' = FALSE
  /\ handled' = ""
  /\ caught' = ""
  /\ raised' = ""
  /\ writes' = <<>>
  /\ UNCHANGED <<connections, connection_states, phase, user, closed, codec_vars>>

\* self._broadcast(data) on the protocol instance of transport t
Broadcast(t, data) ==
  /\ phase[t] = "open"
  /\ LET r == broadcast(connections, connection_states, data, broken)
     IN  /\ writes' = r.writes
         /\ raised' = r.exc
  /\ event' = [op |-> "broadcast", t |-> t, data |-> data]
  /\ decoded' = FALSE
  /\ handled' = ""
  /\ caught' = ""
  /\ UNCHANGED <<connections, connection_states, phase, user, closed, broken, codec_vars>>

BroadcastNext ==
  \/ \E t \in Transports : ConnectionMade(t)
  \/ \E t \in Transports : ConnectionLost(t)
  \/ \E t \in Transports, state \in ConnectionStates : SetState(t, state)
  \/ \E t \in Transports : TransportBreaks(t)
  \/ \E t \in Transports, data \in BroadcastFrames : Broadcast(t, data)

SpecBroadcast == Init /\ [][BroadcastNext]_vars

(***************************************************************************)
(* The callbacks, and _broadcast called in any state they lead to.         *)
(***************************************************************************)
CallbacksNext ==
  \/ Next
  \/ \E t \in Transports, data \in BroadcastFrames : Broadcast(t, data)

SpecCallbacks == Init /\ [][CallbacksNext]_vars

(***************************************************************************)
(* Properties of the codec, under SpecCodec.                               *)
(***************************************************************************)
\* the length field a byte string of at least four bytes declares
DeclaredLength(raw) == raw[3] * 256 + raw[4]

\* the four header bytes for a code and a length
HeaderBytes(code, n) == <<code \div 256, code % 256, n \div 256, n % 256>>

\* C1, as claimed: decoding the packed bytes of any code and any data of 0 or
\* more bytes gives back the code and exactly the data.
C1_RoundTripExact ==
  (call.op = "pack" /\ ~call.data.none) =>
    /\ ret.exc = ""
    /\ decode(ret.val).exc = ""
    /\ decode(ret.val).val.code = call.code
    /\ decode(ret.val).val.data = call.data

\* C1, amended: decoding the packed bytes gives back the code, and exactly the
\* data when the data has at least one byte; packed empty data decodes to a
\* Message with no data (None).
C1_RoundTrip ==
  (call.op = "pack" /\ ~call.data.none) =>
    /\ ret.exc = ""
    /\ decode(ret.val).exc = ""
    /\ decode(ret.val).val.code = call.code
    /\ Len(call.data.bytes) >= 1 => decode(ret.val).val.data = call.data
    /\ Len(call.data.bytes) = 0 => decode(ret.val).val.data = NoneVal

\* C1 witness: data of the greatest length of the model was packed under the
\* greatest code, and decodes to itself.
C1_Witness ==
  /\ call.op = "pack"
  /\ call.code = 65535
  /\ ~call.data.none
  /\ Len(call.data.bytes) = MaxData
  /\ ret.exc = ""
  /\ decode(ret.val) = Ok(Message(65535, call.data))

\* C2, as claimed: a payload whose declared length equals the bytes left after
\* the header is dropped by decode.
C2_ExactLengthDropped ==
  (/\ call.op = "decode"
   /\ Len(call.raw) >= HEADER_SIZE
   /\ DeclaredLength(call.raw) > 0
   /\ DeclaredLength(call.raw) = Len(call.raw) - HEADER_SIZE) =>
    ret.exc = "" /\ ret.val.data = NoneVal

\* C2, amended: a payload whose declared length equals the bytes left after the
\* header is returned in full; decode drops the payload exactly when the
\* declared length is 0 or is at least the length of the whole byte string.
C2_ExactLengthKept ==
  (call.op = "decode" /\ Len(call.raw) >= HEADER_SIZE) =>
    /\ ret.exc = ""
    /\ (DeclaredLength(call.raw) > 0
        /\ DeclaredLength(call.raw) = Len(call.raw) - HEADER_SIZE) =>
          ret.val.data = BytesVal(SubSeq(call.raw, HEADER_SIZE + 1, Len(call.raw)))
    /\ ret.val.data = NoneVal <=>
         (DeclaredLength(call.raw) = 0 \/ DeclaredLength(call.raw) >= Len(call.raw))

\* C2 witness: a byte string with a payload of exactly the declared length was
\* decoded, and the payload came back.
C2_Witness ==
  /\ call.op = "decode"
  /\ Len(call.raw) = HEADER_SIZE + MaxData
  /\ DeclaredLength(call.raw) = MaxData
  /\ ret.exc = ""
  /\ ~ret.val.data.none
  /\ Len(ret.val.data.bytes) = MaxData

\* C3: pack returns the four header bytes, code then length of the data, both
\* big-endian, followed by the data; for data None or empty it returns the
\* header alone with length 0, also through pack_motd_req and pack_whoami.
C3_PackLayout ==
  (call.op \in {"pack", "pack_motd_req", "pack_whoami"}) =>
    /\ ret.exc = ""
    /\ ret.val = HeaderBytes(call.code, Len(call.data.bytes)) \o call.data.bytes

\* C7: decode of a byte string of 0, 1, 2 or 3 bytes raises and returns no
\* Message.
C7_ShortDecodeFails ==
  (call.op = "decode" /\ Len(call.raw) < HEADER_SIZE) => ret.exc # ""

\* C7 witness: a three-byte string was decoded and the call raised.
C7_Witness ==
  /\ call.op = "decode"
  /\ Len(call.raw) = 3
  /\ ret.exc = "struct.error"

\* C18: for a byte string of at least four bytes, the Message decode returns has
\* no data or data of exactly as many bytes as the length field of the header
\* declares, never fewer.
C18_DecodedLengthMatches ==
  (call.op = "decode" /\ Len(call.raw) >= HEADER_SIZE) =>
    /\ ret.exc = ""
    /\ \/ ret.val.data.none
       \/ Len(ret.val.data.bytes) = DeclaredLength(call.raw)

(***************************************************************************)
(* Properties of the server, under Spec.  A step of Spec is one callback;  *)
(* event' names it, the unprimed variables are the state before it.        *)
(***************************************************************************)
\* the code field of a chunk of at least four bytes
ChunkCode(d) == d[1] * 256 + d[2]

\* a frame: the header for the code and the text's length, then the text, whose
\* characters are all ASCII
AsciiFrame(code, text) == HeaderBytes(code, Len(text)) \o text

\* the rules of a user name: 1 to 12 characters, the first alphabetic, no
\* whitespace
ValidName(n) ==
  /\ Len(n) \in 1..MAX_USERNAME
  /\ IsAlpha(n[1])
  /\ \A i \in 1..Len(n) : ~IsSpace(n[i])

\* the names of the model: strings of 'A', ' ' and e-acute
NameInputs == UNION {[1..k -> {65, 32, 233}] : k \in 0..MaxData}

ValidNames == {n \in NameInputs : ValidName(n)}

\* for each valid name: the REGISTER_USER chunk a client sends for it, the
\* COMMAND_SUCCESS 'register_user_success: <name> confirmed.' frame and the
\* USER_STATUS frame carrying it
NameFrames ==
  {[name |-> n,
    register |-> pack_register_user(n).val,
    success |->
      LET text == TXT_REGISTER_SUCCESS \o Utf8Encode(n).val \o TXT_CONFIRMED
      IN  HeaderBytes(CODE_COMMAND_SUCCESS, Len(text)) \o text,
    status |-> HeaderBytes(CODE_USER_STATUS, Len(Utf8Encode(n).val)) \o Utf8Encode(n).val]
   : n \in ValidNames}

\* COMMAND_ERROR 'user_status: host has no registered users.'
NoUserFrame == AsciiFrame(CODE_COMMAND_ERROR, TXT_NO_USER)

\* MOTD carrying the banner
MotdFrame == AsciiFrame(CODE_MOTD, MOTD_TEXT)

\* COMMAND_ERROR 'malformed_packet_error: bad message code (<code>)'
BadCodeFrame(code) ==
  AsciiFrame(CODE_COMMAND_ERROR, TXT_BAD_CODE_OPEN \o IntStr(code) \o TXT_BAD_CODE_CLOSE)

\* COMMAND_ERROR 'malformed_packet_error: incomplete header, <repr of the chunk>'
IncompleteHeaderFrame(d) ==
  AsciiFrame(CODE_COMMAND_ERROR, TXT_INCOMPLETE_HEADER \o BytesRepr(d))

\* the codes the dispatcher knows
RequestCodes == {CODE_MOTD_REQUEST, CODE_REGISTER_USER, CODE_WHOAMI}

\* the answer to WHOAMI on a connection whose self.user is u
WhoamiAnswer(u) ==
  IF u.none THEN NoUserFrame ELSE (CHOOSE f \in NameFrames : f.name = u.str).status

\* exactly one frame was written, to t
OneWrite(w, t, frame) == w = <<[to |-> t, data |-> frame]>>

\* the step wrote a COMMAND_SUCCESS frame
WroteSuccess(w) ==
  \E i \in 1..Len(w) : SubSeq(w[i].data, 1, 2) = <<0, CODE_COMMAND_SUCCESS>>

C4_Step ==
  \A t \in Transports :
    (event'.op = "data_received" /\ event'.t = t) =>
      /\ (Len(event'.data) >= HEADER_SIZE /\ ChunkCode(event'.data) = CODE_WHOAMI) =>
           OneWrite(writes', t, WhoamiAnswer(user[t]))
      /\ \A f \in NameFrames :
           event'.data = f.register =>
             /\ OneWrite(writes', t, f.success)
             /\ user'[t] = StrVal(f.name)
      /\ ~WroteSuccess(writes') => user'[t] = user[t]

\* C4: on a connection, WHOAMI is answered with COMMAND_ERROR 'user_status: host
\* has no registered users.' while self.user is None, and with USER_STATUS
\* carrying self.user otherwise; REGISTER_USER with a valid name N is answered
\* with COMMAND_SUCCESS 'register_user_success: N confirmed.' and sets self.user
\* to N; and self.user, None at first, changes in no step that writes no
\* COMMAND_SUCCESS frame: so self.user is the name of the most recent successful
\* registration, and None before the first.
C4_RegisterThenWhoami == [][C4_Step]_vars

\* C4 witness: a WHOAMI on a connection with a registered name was answered with
\* USER_STATUS carrying the name.
C4_Witness ==
  /\ event.op = "data_received"
  /\ event.data = Header(CODE_WHOAMI, 0)
  /\ ~user[event.t].none
  /\ OneWrite(writes, event.t, WhoamiAnswer(user[event.t]))

C5_Step ==
  \A t \in Transports :
    (event'.op = "data_received" /\ event'.t = t /\ Len(event'.data) >= HEADER_SIZE) =>
      /\ ChunkCode(event'.data) \notin RequestCodes =>
           /\ handled' = ""
           /\ OneWrite(writes', t, BadCodeFrame(ChunkCode(event'.data)))
           /\ caught' = ""
           /\ raised' = ""
           /\ connections' = connections
           /\ connection_states' = connection_states
           /\ t \in Range(connections')
           /\ user' = user
      /\ (/\ event.op = "data_received"
          /\ event.t = t
          /\ Len(event.data) >= HEADER_SIZE
          /\ ChunkCode(event.data) \notin RequestCodes) =>
           /\ ChunkCode(event'.data) = CODE_MOTD_REQUEST =>
                handled' = "_handle_motd_request" /\ OneWrite(writes', t, MotdFrame)
           /\ ChunkCode(event'.data) = CODE_WHOAMI =>
                /\ handled' = "_handle_whoami_request"
                /\ OneWrite(writes', t, WhoamiAnswer(user[t]))
           /\ \A f \in NameFrames :
                event'.data = f.register =>
                  /\ handled' = "_handle_register_user"
                  /\ OneWrite(writes', t, f.success)

\* C5: a chunk with a code other than MOTD_REQUEST, REGISTER_USER and WHOAMI
\* invokes no handler, writes exactly one frame, the COMMAND_ERROR naming the
\* code, to the connection it came from, raises nothing, and leaves the registry
\* and every user name as they were; the next request on that connection, a
\* MOTD_REQUEST, a WHOAMI or a REGISTER_USER with a valid name, is dispatched to
\* its handler and answered as usual.
C5_UnknownCode == [][C5_Step]_vars

\* C5 witness: the code 9999 came in on a registered connection and was answered
\* with the one COMMAND_ERROR frame.
C5_Witness ==
  /\ event.op = "data_received"
  /\ event.data = Header(9999, 0)
  /\ handled = ""
  /\ OneWrite(writes, event.t, BadCodeFrame(9999))
  /\ event.t \in Range(connections)

C6_Step ==
  \A t \in Transports :
    (event'.op = "data_received" /\ event'.t = t /\ Len(event'.data) < HEADER_SIZE) =>
      /\ decoded' = FALSE
      /\ handled' = ""
      /\ OneWrite(writes', t, IncompleteHeaderFrame(event'.data))
      /\ caught' = ""
      /\ raised' = ""
      /\ connections' = connections
      /\ connection_states' = connection_states
      /\ t \in Range(connections')
      /\ user' = user
      /\ closed' = closed

\* C6: a chunk of fewer than four bytes is not given to decode and invokes no
\* handler; exactly one frame is written, to the connection it came from, the
\* COMMAND_ERROR 'malformed_packet_error: incomplete header, <chunk>'; the
\* registry, the connection's state and every user name stay as they were.
C6_ShortChunk == [][C6_Step]_vars

\* C6 witness: a chunk of three bytes came in and was answered with the one
\* COMMAND_ERROR frame, without a call of decode.
C6_Witness ==
  /\ event.op = "data_received"
  /\ Len(event.data) = HEADER_SIZE - 1
  /\ ~decoded
  /\ OneWrite(writes, event.t, IncompleteHeaderFrame(event.data))
  /\ event.t \in Range(connections)

\* C8: connection_lost run again for a transport already removed raises nothing
\* and leaves the connections list and connection_states as they were.
C8_DoubleRemovalSafe ==
  [][(event'.op = "connection_lost" /\ phase[event'.t] = "lost") =>
       /\ raised' = ""
       /\ connections' = connections
       /\ connection_states' = connection_states]_vars

\* how many times t is in the connections list
Occurrences(t) == Cardinality({i \in 1..Len(connections) : connections[i] = t})

\* C11: after any sequence of connection_made, data_received and connection_lost
\* callbacks over the connections, a transport whose connection was made and is
\* not yet lost is in the connections list exactly once and has an entry in
\* connection_states, any other transport is in neither, and the transport of a
\* lost connection has been closed.
C11_RegistryMembership ==
  \A t \in Transports :
    /\ phase[t] = "open" => (Occurrences(t) = 1 /\ t \in DOMAIN connection_states)
    /\ phase[t] # "open" => (Occurrences(t) = 0 /\ t \notin DOMAIN connection_states)
    /\ phase[t] = "lost" => closed[t]

\* C11 witness: one connection was made, served a request and was lost while
\* another one stays registered.
C11_Witness ==
  /\ event.op = "connection_lost"
  /\ raised = ""
  /\ phase[event.t] = "lost"
  /\ closed[event.t]
  /\ ~user[event.t].none
  /\ event.t \notin Range(connections)
  /\ event.t \notin DOMAIN connection_states
  /\ \E u \in Transports :
       phase[u] = "open" /\ Occurrences(u) = 1 /\ u \in DOMAIN connection_states

\* the payload of a chunk of at least four bytes
ChunkPayload(d) == SubSeq(d, HEADER_SIZE + 1, Len(d))

\* C13: a REGISTER_USER chunk whose payload is no ASCII text, a user name with a
\* byte above 127 in it, gets no response: data_received catches the failure,
\* nothing is written to any transport, the user name of the session stays as
\* it was and the connection stays in the registry.
C13_UndecodableSilent ==
  [][\A t \in Transports :
       (/\ event'.op = "data_received"
        /\ event'.t = t
        /\ Len(event'.data) > HEADER_SIZE
        /\ ChunkCode(event'.data) = CODE_REGISTER_USER
        /\ DeclaredLength(event'.data) = Len(ChunkPayload(event'.data))
        /\ \E i \in 1..Len(ChunkPayload(event'.data)) :
             ChunkPayload(event'.data)[i] > 127) =>
         /\ caught' # ""
         /\ writes' = <<>>
         /\ user'[t] = user[t]
         /\ t \in Range(connections')]_vars

\* the REGISTER_USER chunks a client sends for the names that break a rule
InvalidNameFrames ==
  {[name |-> n, register |-> pack_register_user(n).val] : n \in NameInputs \ ValidNames}

\* a COMMAND_ERROR frame whose text begins with 'register_user_error: '
IsRegisterError(frame) ==
  /\ Len(frame) > HEADER_SIZE + Len(TXT_REGISTER_ERROR)
  /\ SubSeq(frame, 1, 2) = <<0, CODE_COMMAND_ERROR>>
  /\ DeclaredLength(frame) = Len(frame) - HEADER_SIZE
  /\ SubSeq(frame, HEADER_SIZE + 1, HEADER_SIZE + Len(TXT_REGISTER_ERROR))
       = TXT_REGISTER_ERROR

\* the REGISTER_USER chunks alone
RefusedRegistrations == {f.register : f \in InvalidNameFrames}

\* the WHOAMI request
WhoamiRequest == Header(CODE_WHOAMI, 0)

\* the MOTD_REQUEST request
MotdRequest == Header(CODE_MOTD_REQUEST, 0)

\* the chunk is a REGISTER_USER request for a name that breaks a rule
IsRefusedRegistration(d) == d \in RefusedRegistrations

C15_Step ==
  \A t \in Transports :
    (event'.op = "data_received" /\ event'.t = t) =>
      /\ IsRefusedRegistration(event'.data) =>
           /\ Len(writes') = 1
           /\ writes'[1].to = t
           /\ IsRegisterError(writes'[1].data)
           /\ user'[t] = user[t]
      /\ (/\ event.op = "data_received"
          /\ event.t = t
          /\ event'.data = WhoamiRequest
          /\ IsRefusedRegistration(event.data)) =>
           /\ user'[t] = user[t]
           /\ OneWrite(writes', t, WhoamiAnswer(user[t]))
      /\ \A f \in NameFrames :
           event'.data = f.register => user'[t] = StrVal(f.name)

\* C15: a REGISTER_USER request for a name that breaks a rule is answered with
\* one COMMAND_ERROR frame and leaves self.user, a name or None, as it was, and
\* the WHOAMI that follows it is answered from that unchanged value; a request
\* for a valid name sets self.user to it, whatever it was before.
C15_FailedRegistrationKeepsName == [][C15_Step]_vars

\* C15 witness: on a connection with a registered name, a registration for a
\* name ending in a space was refused and the registered name is still there.
C15_Witness ==
  /\ event.op = "data_received"
  /\ IsRefusedRegistration(event.data)
  /\ Len(event.data) > HEADER_SIZE
  /\ ~user[event.t].none
  /\ ValidName(user[event.t].str)
  /\ Len(writes) = 1
  /\ IsRegisterError(writes[1].data)

C16_Step ==
  \A t \in Transports :
    (event'.op = "data_received" /\ event'.t = t) =>
      /\ \A i \in 1..Len(writes') : writes'[i].to = t
      /\ \A u \in Transports \ {t} : user'[u] = user[u]
      /\ connections' = connections
      /\ connection_states' = connection_states
      /\ closed' = closed

\* C16: a chunk received on a connection, whatever its code and payload, is
\* answered on that connection's transport alone, changes no user name but that
\* connection's own, and leaves the connections list and connection_states as
\* they were.
C16_SessionIsolation == [][C16_Step]_vars

\* C16 witness: with another connection open under a name of its own, a
\* connection registered a different name and got the one answer.
C16_Witness ==
  /\ event.op = "data_received"
  /\ ~user[event.t].none
  /\ Len(writes) = 1
  /\ writes[1].to = event.t
  /\ WroteSuccess(writes)
  /\ \E u \in Transports \ {event.t} :
       /\ phase[u] = "open"
       /\ ~user[u].none
       /\ user[u] # user[event.t]

\* well-formed requests: MOTD_REQUEST, WHOAMI and REGISTER_USER for a valid name
Requests == {MotdRequest, WhoamiRequest} \cup {f.register : f \in NameFrames}

\* chunks of two requests, the first a WHOAMI
WhoamiThenRequest == {WhoamiRequest \o g : g \in Requests}

\* chunks of two requests, the first a MOTD_REQUEST
MotdThenRequest == {MotdRequest \o g : g \in Requests}

\* chunks of two requests, the first a REGISTER_USER for a valid name, with the
\* name and the COMMAND_SUCCESS frame that confirms it
RegisterThenRequest ==
  {[chunk |-> f.register \o g, name |-> f.name, success |-> f.success]
   : f \in NameFrames, g \in Requests}

\* the handler of the code a chunk begins with, "" when there is none
LeadingHandler(d) ==
  IF Len(d) < HEADER_SIZE THEN ""
  ELSE IF ChunkCode(d) = CODE_MOTD_REQUEST THEN "_handle_motd_request"
  ELSE IF ChunkCode(d) = CODE_REGISTER_USER THEN "_handle_register_user"
  ELSE IF ChunkCode(d) = CODE_WHOAMI THEN "_handle_whoami_request"
  ELSE ""

C17_Step ==
  \A t \in Transports :
    (event'.op = "data_received" /\ event'.t = t) =>
      /\ Len(writes') <= 1
      /\ handled' = LeadingHandler(event'.data)
      /\ event'.data \in WhoamiThenRequest =>
           /\ OneWrite(writes', t, WhoamiAnswer(user[t]))
           /\ user'[t] = user[t]
      /\ event'.data \in MotdThenRequest =>
           /\ OneWrite(writes', t, MotdFrame)
           /\ user'[t] = user[t]
      /\ Len(event'.data) > 2 * HEADER_SIZE =>
           \A p \in RegisterThenRequest :
             event'.data = p.chunk =>
               /\ OneWrite(writes', t, p.success)
               /\ user'[t] = StrVal(p.name)

\* C17: a call of data_received invokes no handler but the one of the code the
\* chunk begins with and writes at most one frame; a chunk of two well-formed
\* requests one after the other is answered as its first request alone is, with
\* one frame, and the bytes after the first request have no effect.
C17_OneHandlerOneFrame == [][C17_Step]_vars

\* C17 witness: a chunk holding REGISTER_USER for 'A' and then WHOAMI was
\* answered with the one COMMAND_SUCCESS frame and no USER_STATUS.
C17_Witness ==
  /\ event.op = "data_received"
  /\ event.data = Header(CODE_REGISTER_USER, 1) \o <<65>> \o WhoamiRequest
  /\ handled = "_handle_register_user"
  /\ Len(writes) = 1
  /\ WroteSuccess(writes)
  /\ user[event.t] = StrVal(<<65>>)

\* another open connection is registered under the name
HeldByAnother(t, name) ==
  \E u \in Transports \ {t} : phase[u] = "open" /\ user[u] = StrVal(name)

C19_Step ==
  \A t \in Transports :
    (event'.op = "data_received" /\ event'.t = t) =>
      /\ (Len(event'.data) > HEADER_SIZE /\ ChunkCode(event'.data) = CODE_REGISTER_USER) =>
           \A f \in NameFrames :
             (event'.data = f.register /\ HeldByAnother(t, f.name)) =>
               /\ OneWrite(writes', t, f.success)
               /\ user'[t] = StrVal(f.name)
               /\ HeldByAnother(t, f.name)'
      /\ (/\ event'.data = WhoamiRequest
          /\ ~user[t].none
          /\ HeldByAnother(t, user[t].str)) =>
           OneWrite(writes', t, WhoamiAnswer(user[t]))

\* C19: user names are not unique across sessions: REGISTER_USER for a valid
\* name that another open connection is registered under succeeds like any
\* other and leaves the other connection's name in place, and WHOAMI on a
\* connection sharing its name with another is answered with that name.
C19_NoUniqueness == [][C19_Step]_vars

\* C19 witness: two open connections are registered under the same name and a
\* WHOAMI on one of them was answered with it.
C19_Witness ==
  /\ event.op = "data_received"
  /\ event.data = WhoamiRequest
  /\ phase[event.t] = "open"
  /\ ~user[event.t].none
  /\ \E u \in Transports \ {event.t} : phase[u] = "open" /\ user[u] = user[event.t]
  /\ \E f \in NameFrames :
       user[event.t] = StrVal(f.name) /\ OneWrite(writes, event.t, f.status)

C12_ValidationOrder ==
  call.op = "validate_username" =>
    LET n == call.username
        fits == Len(n) >= 1 /\ Len(n) <= 12
        spaced == \E i \in 1..Len(n) : IsSpace(n[i])
    IN  /\ ret.exc = ""
        /\ Len(n) < 1 => ret.val = StrVal(ERR_TOO_SHORT)
        /\ Len(n) > 12 => ret.val = StrVal(ERR_TOO_LONG)
        /\ (fits /\ ~IsAlpha(n[1])) => ret.val = StrVal(ERR_FIRST_CHAR)
        /\ (fits /\ IsAlpha(n[1]) /\ spaced) => ret.val = StrVal(ERR_WHITESPACE)
        /\ (fits /\ IsAlpha(n[1]) /\ ~spaced) => ret.val = NoneStr

\* C12 witness: a name that breaks the third and the fourth rule, a digit first
\* and a space after it, got the error of the third.
C12_Witness ==
  /\ call.op = "validate_username"
  /\ Len(call.username) \in 2..12
  /\ call.username[1] = 49
  /\ \E i \in 2..Len(call.username) : call.username[i] = 32
  /\ ret = Ok(StrVal(ERR_FIRST_CHAR))

(***************************************************************************)
(* Properties of _broadcast, under SpecBroadcast.                          *)
(***************************************************************************)
\* the registered transports in state READY
ReadyTargets ==
  {t \in Range(connections) : connection_states[t] = STATE_READY}

\* how many writes of the last event went to t
WritesTo(t) == Cardinality({i \in 1..Len(writes) : writes[i].to = t})

\* C9: a write that fails on one READY target of _broadcast is not raised to the
\* caller and every other READY transport still gets the frame.
C9_BroadcastSurvivesFailure ==
  event.op = "broadcast" =>
    /\ raised = ""
    /\ \A t \in ReadyTargets \ broken : WritesTo(t) = 1

====
